---- MODULE Spec2Model ----
(***************************************************************************)
(* A model of etheno/logger.py: the EthenoLogger tree (handlers, levels,   *)
(* directories, log files, close) and make_logged_file.                    *)
(***************************************************************************)
EXTENDS Integers, Sequences, FiniteSets, TLC

\* ---------------------------------------------------------------- levels
CRITICAL == 50
ERROR == 40
WARNING == 30
INFO == 20
DEBUG == 10
NOTSET == 0

\* ---------------------------------------------------------------- bounds
\* Nodes of one logger tree: the root is node 1, children are 2..MaxNodes.
MaxNodes == 3
\* Calls the caller makes on the tree after the root is constructed.
MaxCalls == 5
\* The same, for the behaviours that emit records and close nodes.
MaxCloseCalls == 4
\* Handler objects the caller owns.
MaxUserHandlers == 1
\* Files make_logged_file may hold in one directory for one prefix/suffix.
MaxFiles == 4
\* Threads that call make_logged_file concurrently.
MaxThreads == 2
\* Idle sleeps of a tailer counted after its process ended (more count as this).
MaxSleeps == 2

Node == 1..MaxNodes
RootName == "r"
ChildNames == {"a", "b"}
AllNames == {RootName} \cup ChildNames

VARIABLES
    nodes,                 \* number of EthenoLogger objects held by the tree
    parent,                \* self.parent (0: None)
    children,              \* self.children
    name,                  \* self._logger.name
    cleanup_empty,         \* self.cleanup_empty
    _log_level,            \* self._log_level
    _handlers,             \* self._handlers
    _descendant_handlers,  \* self._descendant_handlers
    _directory,            \* self._directory
    _tmpdir,               \* self._tmpdir is not None
    hlevel,                \* handler.level of every handler object
    stream,                \* state of the stream of each node's FileHandler
    loggers,               \* logging.getLogger(name): level and handlers
    fsDirs,                \* directories that exist
    fsFiles,               \* log files that exist
    fsNonEmpty,            \* log files of non-zero size
    tmpDirs,               \* temporary directories that exist
    last,                  \* the last call and how it ended
    given,                 \* the path argument that assigned each directory
    inherited,             \* created with log_level=None, never set since
    budget,                \* calls the caller may still make on the tree
    files,                 \* make_logged_file: indices i whose file exists
    removed,               \* make_logged_file: a file was removed since Init
    calls,                 \* make_logged_file: the results of the calls
    pc,                    \* make_logged_file: each thread's position
    ti,                    \* make_logged_file: each thread's local i
    opened,                \* make_logged_file: index each thread opened
    tkind,                 \* tailer: StreamLogger, ProcessLogger or PtyLogger
    blocking,              \* tailer: read(1) waits when no data is there
    _newline_char,         \* tailer: self._newline_char
    _buffers,              \* tailer: self._buffers
    _done,                 \* tailer: self._done
    got_byte,              \* tailer: the local got_byte of run()
    tpc,                   \* tailer: position of the thread in run()
    si,                    \* tailer: index of the stream being read
    pending,               \* bytes the owner of each stream has yet to write
    pipe,                  \* bytes written to each stream and not yet read
    alive,                 \* the process or session that owns the streams runs
    broken,                \* streams whose read(1) raises
    records,               \* the calls self.log(self.logger, text) made
    readBytes,             \* bytes each stream has returned to the tailer
    hist                   \* what the tailer has met since it started

treeVars == <<nodes, parent, children, name, cleanup_empty, _log_level,
              _handlers, _descendant_handlers, _directory, _tmpdir, hlevel,
              stream, loggers, fsDirs, fsFiles, fsNonEmpty, tmpDirs, last,
              given, inherited, budget>>
fileVars == <<files, removed, calls, pc, ti, opened>>
tailVars == <<tkind, blocking, _newline_char, _buffers, _done, got_byte, tpc,
              si, pending, pipe, alive, broken, records, readBytes, hist>>
vars == <<treeVars, fileVars, tailVars>>

\* ----------------------------------------------------------------- values
\* A handler object: the StreamHandler made by __init__, the FileHandler made
\* by save_to_file, or a handler the caller passes to addHandler.
StreamH(n) == <<"stream", n>>
FileH(n) == <<"file", n>>
UserH(k) == <<"user", k>>
UserHandlers == {UserH(k) : k \in 1..MaxUserHandlers}
AllHandlers == {StreamH(n) : n \in Node} \cup {FileH(n) : n \in Node} \cup UserHandlers
IsFileHandler(h) == h[1] = "file"

\* A path argument. target is the directory the path resolves to; canon is
\* FALSE for a relative or otherwise non-canonical spelling of it.
None == [kind |-> "none", target |-> <<>>, canon |-> TRUE]
TmpObj == [kind |-> "tmpobj", target |-> <<>>, canon |-> TRUE]
Path(t, c) == [kind |-> "path", target |-> t, canon |-> c]
realpath(p) == [p EXCEPT !.canon = TRUE]
join(p, nm) == [p EXCEPT !.target = Append(@, nm)]
\* <dir>/<name>.log
LogFile(t, nm) == [dir |-> t, base |-> nm]

\* A log_level argument: an int, a str, or None.
IntV(i) == [type |-> "int", int |-> i, str |-> ""]
StrV(x) == [type |-> "str", int |-> 0, str |-> x]
NoneV == [type |-> "none", int |-> 0, str |-> ""]

\* str.upper() on the strings the model passes.
upper(x) ==
    CASE x = "debug" -> "DEBUG"
      [] x = "Warning" -> "WARNING"
      [] x = "notset" -> "NOTSET"
      [] x = "bogus" -> "BOGUS"
      [] OTHER -> x
\* The upper-case integer attributes of the logging module.
LoggingAttr ==
    [x \in {"CRITICAL", "FATAL", "ERROR", "WARNING", "WARN", "INFO", "DEBUG", "NOTSET"} |->
        CASE x \in {"CRITICAL", "FATAL"} -> CRITICAL
          [] x = "ERROR" -> ERROR
          [] x \in {"WARNING", "WARN"} -> WARNING
          [] x = "INFO" -> INFO
          [] x = "DEBUG" -> DEBUG
          [] OTHER -> NOTSET]

Range(q) == {q[i] : i \in 1..Len(q)}
Count(q, x) == Cardinality({i \in 1..Len(q) : q[i] = x})
IsPrefix(a, b) == Len(a) <= Len(b) /\ SubSeq(b, 1, Len(a)) = a

\* ------------------------------------------------------------------ state
\* The operations are functions from state to state; a raised exception is
\* the field exc, and the assignments made before the raise stay made.
State ==
    [parent |-> parent, children |-> children, name |-> name,
     cleanup_empty |-> cleanup_empty, _log_level |-> _log_level,
     _handlers |-> _handlers, _descendant_handlers |-> _descendant_handlers,
     _directory |-> _directory, _tmpdir |-> _tmpdir, hlevel |-> hlevel,
     stream |-> stream, loggers |-> loggers, fsDirs |-> fsDirs,
     fsFiles |-> fsFiles, fsNonEmpty |-> fsNonEmpty, tmpDirs |-> tmpDirs,
     given |-> given, exc |-> "none"]

Raise(s, e) == [s EXCEPT !.exc = e]

\* handler.setLevel(level)
handler_setLevel(s, h, level) == [s EXCEPT !.hlevel[h] = level]

\* logging.Logger.addHandler: a handler already on the logger is not added.
Logger_addHandler(s, nm, h) ==
    IF h \in Range(s.loggers[nm].handlers) THEN s
    ELSE [s EXCEPT !.loggers[nm].handlers = Append(@, h)]

\* The log_level property: a node without a level of its own asks its parent.
RECURSIVE log_level(_, _)
log_level(s, n) ==
    IF s._log_level[n] = NoneV
    THEN IF s.parent[n] = 0 THEN NoneV ELSE log_level(s, s.parent[n])
    ELSE s._log_level[n]

\* The values the log_level setter accepts: an int of the recognized set, or
\* anything else whose upper-cased str() is an attribute of logging.
Recognized == {CRITICAL, ERROR, WARNING, INFO, DEBUG}
IsAccepted(v) ==
    IF v.type = "int" THEN v.int \in Recognized
    ELSE upper(v.str) \in DOMAIN LoggingAttr
ResolveLevel(v) ==
    IF v.type = "int" THEN v.int ELSE LoggingAttr[upper(v.str)]

\* for handler in self._handlers: handler.setLevel(level)
RECURSIVE setLevels(_, _, _)
setLevels(s, hs, level) ==
    IF hs = <<>> THEN s
    ELSE setLevels(handler_setLevel(s, Head(hs), level), Tail(hs), level)

\* The log_level setter.
set_log_level(s, n, v) ==
    IF ~IsAccepted(v) THEN Raise(s, "ValueError")
    ELSE LET level == ResolveLevel(v)
             s1 == [s EXCEPT !._log_level[n] = IntV(level),
                             !.loggers[s.name[n]].level = level]
         IN setLevels(s1, s1._handlers[n], level)

\* The children addHandler recurses into.
HandlerTargets(s, n) == s.children[n]

RECURSIVE addHandler(_, _, _, _, _)
RECURSIVE addHandlerToEach(_, _, _, _, _)
addHandler(s, n, h, include_descendants, set_level) ==
    LET s1 == IF set_level THEN handler_setLevel(s, h, log_level(s, n).int) ELSE s
        s2 == Logger_addHandler(s1, s.name[n], h)
        s3 == [s2 EXCEPT !._handlers[n] = Append(@, h)]
    IN IF include_descendants
       THEN addHandlerToEach([s3 EXCEPT !._descendant_handlers[n] = Append(@, h)],
                             HandlerTargets(s3, n), h, include_descendants, set_level)
       ELSE s3
addHandlerToEach(s, cs, h, include_descendants, set_level) ==
    IF cs = <<>> THEN s
    ELSE addHandlerToEach(addHandler(s, Head(cs), h, include_descendants, set_level),
                          Tail(cs), h, include_descendants, set_level)

\* os.makedirs(path, exist_ok=True)
Prefixes(t) == {SubSeq(t, 1, k) : k \in 1..Len(t)}
makedirs(s, t) == [s EXCEPT !.fsDirs = @ \cup Prefixes(t)]

\* logging.FileHandler(path): opens <path> for appending, creating it.
FileHandler_open(s, n, f) ==
    [s EXCEPT !.fsFiles = @ \cup {f}, !.stream[n] = "open"]

\* The file of node n's FileHandler: <directory>/<name>.log
OwnLog(s, n) == LogFile(s._directory[n].target, s.name[n])

save_to_file(s, n, path, include_descendants, level) ==
    LET lv == IF level = NoneV THEN log_level(s, n) ELSE level
        s1 == FileHandler_open(s, n, LogFile(path.target, s.name[n]))
        s2 == handler_setLevel(s1, FileH(n), lv.int)
    IN addHandler(s2, n, FileH(n), include_descendants, FALSE)

\* A test that returns at once whenever a directory is set.
AlreadySavedAny(directory, path) == directory # None
\* The test that makes a repeated save_to_directory return at once.
AlreadySaved(directory, path) == directory = path

\* A loop over the children that assigns nothing.
saveNoChildren(s, cs, path) == s

RECURSIVE save_to_directory(_, _, _)
RECURSIVE saveChildren(_, _, _)
save_to_directory(s, n, path) ==
    IF AlreadySaved(s._directory[n], path) THEN s
    ELSE IF s._directory[n] # None THEN Raise(s, "ValueError")
    ELSE IF path.kind # "path" THEN Raise(s, "TypeError")
    ELSE LET s1 == [s EXCEPT !._directory[n] = realpath(path), !.given[n] = path]
             s2 == makedirs(s1, path.target)
             s3 == save_to_file(s2, n, path, FALSE, IntV(DEBUG))
         IN saveChildren(s3, s3.children[n], path)
saveChildren(s, cs, path) ==
    IF cs = <<>> \/ s.exc # "none" THEN s
    ELSE saveChildren(save_to_directory(s, Head(cs), join(path, s.name[Head(cs)])),
                      Tail(cs), path)

\* The list the loop of _add_child reads at the ancestor `anc` of the walk
\* that starts at `self`.
LoopHandlers(s, self, anc) == s._descendant_handlers[self]

RECURSIVE addEach(_, _, _)
addEach(s, hs, c) ==
    IF hs = <<>> THEN s
    ELSE addEach(addHandler(s, c, Head(hs), TRUE, TRUE), Tail(hs), c)
RECURSIVE ancestorLoop(_, _, _, _)
ancestorLoop(s, self, anc, c) ==
    IF anc = 0 THEN s
    ELSE ancestorLoop(addEach(s, LoopHandlers(s, self, anc), c), self, s.parent[anc], c)

\* The directory a new child is given.
ChildDirectory(s, p, c) ==
    IF s._directory[p] # None THEN join(s._directory[p], s.name[c]) ELSE TmpObj

_add_child(s, p, c) ==
    IF c \in Range(s.children[p]) THEN Raise(s, "ValueError")
    ELSE LET s1 == [s EXCEPT !.children[p] = Append(@, c)]
             s2 == IF s1._directory[p] # None THEN s1
                   ELSE [s1 EXCEPT !._tmpdir[c] = TRUE, !.tmpDirs = @ \cup {c}]
             s3 == save_to_directory(s2, c, ChildDirectory(s2, p, c))
         IN IF s3.exc # "none" THEN s3 ELSE ancestorLoop(s3, p, p, c)

\* EthenoLogger(name, log_level, parent, cleanup_empty) building node n.
\* The level a node created with log_level=None starts with.
InitialLevel(s, p, v) == IF v = NoneV THEN log_level(s, p) ELSE v

init(s, n, nm, v, p, ce) ==
    IF v = NoneV /\ p = 0 THEN Raise(s, "ValueError")
    ELSE LET lv == InitialLevel(s, p, v)
             s1 == [s EXCEPT !._directory[n] = None, !.parent[n] = p,
                             !.cleanup_empty[n] = ce, !.children[n] = <<>>,
                             !._descendant_handlers[n] = <<>>, !.name[n] = nm,
                             !._log_level[n] = lv, !._handlers[n] = <<StreamH(n)>>]
             s2 == IF lv # NoneV THEN set_log_level(s1, n, lv) ELSE s1
             s3 == IF s2.exc # "none" \/ p = 0 THEN s2 ELSE _add_child(s2, p, n)
         IN IF s3.exc # "none" THEN s3
            ELSE [Logger_addHandler(s3, nm, StreamH(n))
                    EXCEPT !._tmpdir[n] = FALSE, !.tmpDirs = @ \ {n}]

\* ------------------------------------------------------------------ close
\* The size test of close(): the file exists and holds zero bytes.
IsEmptyFile(s, f) == f \in s.fsFiles /\ f \notin s.fsNonEmpty

\* h.close(); os.remove(log_path): every other stream open on the file keeps
\* writing to the unlinked file.
closeAndRemove(s, m, f) ==
    [s EXCEPT !.stream = [k \in Node |->
                             IF k = m THEN "closed"
                             ELSE IF s.stream[k] = "open" /\ OwnLog(s, k) = f THEN "stale"
                             ELSE s.stream[k]],
              !.fsFiles = @ \ {f}]

RECURSIVE removeEmptyLogs(_, _)
removeEmptyLogs(s, hs) ==
    IF hs = <<>> THEN s
    ELSE LET h == Head(hs)
             m == h[2]
             s1 == IF IsFileHandler(h) /\ s.stream[m] \in {"open", "stale"}
                      /\ IsEmptyFile(s, OwnLog(s, m))
                   THEN closeAndRemove(s, m, OwnLog(s, m))
                   ELSE s
         IN removeEmptyLogs(s1, Tail(hs))

\* What os.walk lists in directory d.
SubDirs(s, d) == {x \in s.fsDirs : Len(x) = Len(d) + 1 /\ IsPrefix(d, x)}
FilesIn(s, d) == {f \in s.fsFiles : f.dir = d}
\* A test that does not spare the top directory.
WalkRemovesTop(s, top, d) == SubDirs(s, d) = {} /\ FilesIn(s, d) = {}
\* The test on each directory os.walk(top, topdown=False) yields.
WalkRemoves(s, top, d) ==
    SubDirs(s, d) = {} /\ FilesIn(s, d) = {} /\ d # top

removeEmptyDirs(s, n) ==
    IF s._directory[n] = None THEN s
    ELSE LET top == s._directory[n].target
         IN [s EXCEPT !.fsDirs = @ \ {d \in s.fsDirs : IsPrefix(top, d) /\ WalkRemoves(s, top, d)}]

\* A loop over the children that closes none.
closeNone(s, cs) == s

RECURSIVE close(_, _)
RECURSIVE closeEach(_, _)
close(s, n) ==
    LET s1 == closeEach(s, s.children[n])
        s2 == IF s1.cleanup_empty[n]
              THEN removeEmptyDirs(removeEmptyLogs(s1, s1._handlers[n]), n)
              ELSE s1
    IN IF s2._tmpdir[n]
       THEN [s2 EXCEPT !._tmpdir[n] = FALSE, !.tmpDirs = @ \ {n}]
       ELSE s2
closeEach(s, cs) ==
    IF cs = <<>> THEN s ELSE closeEach(close(s, Head(cs)), Tail(cs))

\* ------------------------------------------------------------------- emit
\* logging.Handler.handle for a record of level lvl: a FileHandler writes to
\* its stream, opening it again when it was closed.
handle(s, h, lvl) ==
    IF lvl < s.hlevel[h] \/ ~IsFileHandler(h) THEN s
    ELSE LET m == h[2]
             f == OwnLog(s, m)
         IN CASE s.stream[m] = "open" -> [s EXCEPT !.fsNonEmpty = @ \cup {f}]
              [] s.stream[m] = "closed" ->
                    IF f.dir \in s.fsDirs
                    THEN [s EXCEPT !.fsFiles = @ \cup {f}, !.fsNonEmpty = @ \cup {f},
                                   !.stream[m] = "open"]
                    ELSE Raise(s, "FileNotFoundError")
              [] OTHER -> s

RECURSIVE callHandlers(_, _, _)
callHandlers(s, hs, lvl) ==
    IF hs = <<>> \/ s.exc # "none" THEN s
    ELSE callHandlers(handle(s, Head(hs), lvl), Tail(hs), lvl)

\* self.log(lvl, ...) through __getattr__: the logger of the node's name.
emit(s, n, lvl) ==
    LET logger == s.loggers[s.name[n]]
        effective == IF logger.level = NOTSET THEN WARNING ELSE logger.level
    IN IF lvl < effective THEN s ELSE callHandlers(s, logger.handlers, lvl)

\* ------------------------------------------------------------ tree actions
Blank ==
    [parent |-> [n \in Node |-> 0], children |-> [n \in Node |-> <<>>],
     name |-> [n \in Node |-> ""], cleanup_empty |-> [n \in Node |-> FALSE],
     _log_level |-> [n \in Node |-> NoneV], _handlers |-> [n \in Node |-> <<>>],
     _descendant_handlers |-> [n \in Node |-> <<>>],
     _directory |-> [n \in Node |-> None], _tmpdir |-> [n \in Node |-> FALSE],
     hlevel |-> [h \in AllHandlers |-> NOTSET],
     stream |-> [n \in Node |-> "none"],
     loggers |-> [x \in AllNames \cup {""} |-> [level |-> NOTSET, handlers |-> <<>>]],
     fsDirs |-> {}, fsFiles |-> {}, fsNonEmpty |-> {}, tmpDirs |-> {},
     given |-> [n \in Node |-> None], exc |-> "none"]

Commit(s) ==
    /\ parent' = s.parent
    /\ children' = s.children
    /\ name' = s.name
    /\ cleanup_empty' = s.cleanup_empty
    /\ _log_level' = s._log_level
    /\ _handlers' = s._handlers
    /\ _descendant_handlers' = s._descendant_handlers
    /\ _directory' = s._directory
    /\ _tmpdir' = s._tmpdir
    /\ hlevel' = s.hlevel
    /\ stream' = s.stream
    /\ loggers' = s.loggers
    /\ fsDirs' = s.fsDirs
    /\ fsFiles' = s.fsFiles
    /\ fsNonEmpty' = s.fsNonEmpty
    /\ tmpDirs' = s.tmpDirs
    /\ given' = s.given

Starts(s) ==
    /\ parent = s.parent
    /\ children = s.children
    /\ name = s.name
    /\ cleanup_empty = s.cleanup_empty
    /\ _log_level = s._log_level
    /\ _handlers = s._handlers
    /\ _descendant_handlers = s._descendant_handlers
    /\ _directory = s._directory
    /\ _tmpdir = s._tmpdir
    /\ hlevel = s.hlevel
    /\ stream = s.stream
    /\ loggers = s.loggers
    /\ fsDirs = s.fsDirs
    /\ fsFiles = s.fsFiles
    /\ fsNonEmpty = s.fsNonEmpty
    /\ tmpDirs = s.tmpDirs
    /\ given = s.given

\* One more call by the caller.
Called ==
    /\ budget > 0
    /\ budget' = budget - 1

Call(op, n, e) ==
    [op |-> op, node |-> n, exc |-> e, path |-> None, value |-> NoneV,
     handler |-> <<"none", 0>>, flag |-> FALSE, set_level |-> FALSE]

\* The arguments the model passes.
RootLevels == {DEBUG, WARNING}
LevelArgs == {IntV(DEBUG), IntV(5), StrV("notset"), StrV("bogus")}
ChildLevelArgs == {NoneV, IntV(DEBUG)}
UserPaths == {Path(<<"d">>, TRUE), Path(<<"d">>, FALSE), Path(<<"e">>, TRUE)}
EmitLevels == {INFO}

\* root = EthenoLogger(RootName, lv, cleanup_empty=ce)
TreeInit(CE, calls_allowed) ==
    \E lv \in RootLevels, ce \in CE :
        /\ Starts(init(Blank, 1, RootName, IntV(lv), 0, ce))
        /\ nodes = 1
        /\ last = Call("init", 1, "none")
        /\ inherited = [n \in Node |-> FALSE]
        /\ budget = calls_allowed

\* child = EthenoLogger(nm, log_level=v, parent=p, cleanup_empty=ce)
NewChild(p, nm, v, ce) ==
    /\ Called
    /\ nodes < MaxNodes
    /\ p \in 1..nodes
    /\ LET n == nodes + 1
           s == init(State, n, nm, v, p, ce)
           attached == n \in Range(s.children[p])
       IN /\ IF attached THEN Commit(s) ELSE Commit(State)
          /\ nodes' = IF attached THEN n ELSE nodes
          /\ inherited' = [inherited EXCEPT ![n] = attached /\ s.exc = "none" /\ v = NoneV]
          /\ last' = [Call("init", n, s.exc) EXCEPT !.value = v, !.flag = ce]
    /\ UNCHANGED <<fileVars, tailVars>>

\* n.addHandler(h, include_descendants, set_log_level)
AddHandler(n, h, include_descendants, set_level) ==
    /\ Called
    /\ n \in 1..nodes
    /\ LET s == addHandler(State, n, h, include_descendants, set_level)
       IN /\ Commit(s)
          /\ last' = [Call("addHandler", n, s.exc) EXCEPT !.handler = h,
                        !.flag = include_descendants, !.set_level = set_level]
    /\ UNCHANGED <<nodes, inherited, fileVars, tailVars>>

\* n.save_to_directory(path)
SaveToDirectory(n, path) ==
    /\ Called
    /\ n \in 1..nodes
    /\ LET s == save_to_directory(State, n, path)
       IN /\ Commit(s)
          /\ last' = [Call("save_to_directory", n, s.exc) EXCEPT !.path = path]
    /\ UNCHANGED <<nodes, inherited, fileVars, tailVars>>

\* n.log_level = v
SetLogLevel(n, v) ==
    /\ Called
    /\ n \in 1..nodes
    /\ LET s == set_log_level(State, n, v)
       IN /\ Commit(s)
          /\ last' = [Call("log_level", n, s.exc) EXCEPT !.value = v]
          /\ inherited' = [inherited EXCEPT ![n] = @ /\ s.exc # "none"]
    /\ UNCHANGED <<nodes, fileVars, tailVars>>

\* n.close()
Close(n) ==
    /\ Called
    /\ n \in 1..nodes
    /\ LET s == close(State, n)
       IN /\ Commit(s)
          /\ last' = Call("close", n, s.exc)
    /\ UNCHANGED <<nodes, inherited, fileVars, tailVars>>

\* n.info(...), n.error(...)
Emit(n, lvl) ==
    /\ Called
    /\ n \in 1..nodes
    /\ LET s == emit(State, n, lvl)
       IN /\ Commit(s)
          /\ last' = [Call("emit", n, s.exc) EXCEPT !.value = IntV(lvl)]
    /\ UNCHANGED <<nodes, inherited, fileVars, tailVars>>

FileIdle ==
    /\ files = {}
    /\ removed = FALSE
    /\ calls = <<>>
    /\ pc = [t \in 1..MaxThreads |-> "idle"]
    /\ ti = [t \in 1..MaxThreads |-> 1]
    /\ opened = [t \in 1..MaxThreads |-> 0]

\* No StreamLogger has been constructed.
TailIdle ==
    /\ tkind = "none"
    /\ blocking = FALSE
    /\ _newline_char = <<>>
    /\ _buffers = <<>>
    /\ _done = FALSE
    /\ got_byte = FALSE
    /\ tpc = "idle"
    /\ si = 0
    /\ pending = <<>>
    /\ pipe = <<>>
    /\ alive = FALSE
    /\ broken = {}
    /\ records = <<>>
    /\ readBytes = <<>>
    /\ hist = [step |-> "none", raised |-> FALSE, sleeps |-> 0, unwritten |-> FALSE]

Init == TreeInit({FALSE}, MaxCalls) /\ FileIdle /\ TailIdle

Next ==
    \/ \E p \in Node, nm \in ChildNames, v \in ChildLevelArgs :
          NewChild(p, nm, v, FALSE)
    \/ \E n \in Node, h \in UserHandlers, d \in BOOLEAN, l \in BOOLEAN :
          AddHandler(n, h, d, l)
    \/ \E n \in Node, path \in UserPaths : SaveToDirectory(n, path)
    \/ \E n \in Node, v \in LevelArgs : SetLogLevel(n, v)

\* Construction, handlers, directories and levels of one logger tree.
Spec == Init /\ [][Next]_vars

InitClose == TreeInit(BOOLEAN, MaxCloseCalls) /\ FileIdle /\ TailIdle

NextClose ==
    \/ \E p \in Node, nm \in ChildNames, ce \in BOOLEAN :
          NewChild(p, nm, NoneV, ce)
    \/ \E n \in Node : SaveToDirectory(n, Path(<<"d">>, TRUE))
    \/ \E n \in Node : SetLogLevel(n, IntV(DEBUG))
    \/ \E n \in Node : Close(n)
    \/ \E n \in Node, lvl \in EmitLevels : Emit(n, lvl)

\* Log records, log files and close() of one logger tree.
SpecClose == InitClose /\ [][NextClose]_vars

\* -------------------------------------------------------- make_logged_file
\* The prefix and suffix the model passes (dir is None).
Prefix == "run"
Suffix == ".log"
Threads == 1..MaxThreads

\* A naming that numbers the first file too.
filenameNumbered(prefix, i, suffix) == prefix \o ToString(i) \o suffix
\* The name tried at index i (lines 182-185).
filename(prefix, i, suffix) ==
    IF i = 1 THEN prefix \o suffix ELSE prefix \o ToString(i) \o suffix

\* os.path.exists(path) for a file of the node's directory.
exists(fs, path) == path \in fs

\* The while loop: the first index from i whose name does not exist.
RECURSIVE scan(_, _)
scan(fs, i) ==
    IF ~exists(fs, filename(Prefix, i, Suffix)) THEN i ELSE scan(fs, i + 1)

\* root.make_logged_file(Prefix, Suffix), run without interruption.
MakeLoggedFile ==
    /\ Len(calls) < MaxFiles
    /\ IF _directory[1] = None
       THEN /\ last' = Call("make_logged_file", 1, "TypeError")
            /\ UNCHANGED <<files, calls>>
       ELSE LET path == filename(Prefix, scan(files, 1), Suffix)
            IN /\ files' = files \cup {path}
               /\ calls' = Append(calls, [path |-> path, before |-> files])
               /\ last' = Call("make_logged_file", 1, "none")
    /\ UNCHANGED <<nodes, parent, children, name, cleanup_empty, _log_level,
                   _handlers, _descendant_handlers, _directory, _tmpdir, hlevel,
                   stream, loggers, fsDirs, fsFiles, fsNonEmpty, tmpDirs, given,
                   inherited, budget, removed, pc, ti, opened, tailVars>>

\* The caller removes a file that make_logged_file created.
RemoveFile(path) ==
    /\ path \in files
    /\ files' = files \ {path}
    /\ removed' = TRUE
    /\ UNCHANGED <<treeVars, calls, pc, ti, opened, tailVars>>

\* Thread t enters root.make_logged_file(Prefix, Suffix): i = 1.
Begin(t) ==
    /\ pc[t] = "idle"
    /\ Len(calls) + Cardinality({u \in Threads : pc[u] # "idle"}) < MaxFiles
    /\ _directory[1] # None
    /\ pc' = [pc EXCEPT ![t] = "check"]
    /\ ti' = [ti EXCEPT ![t] = 1]
    /\ UNCHANGED <<treeVars, files, removed, calls, opened, tailVars>>

\* Thread t evaluates os.path.exists(path) for its current i.
Check(t) ==
    /\ pc[t] = "check"
    /\ IF ~exists(files, filename(Prefix, ti[t], Suffix))
       THEN pc' = [pc EXCEPT ![t] = "open"] /\ ti' = ti
       ELSE ti' = [ti EXCEPT ![t] = @ + 1] /\ pc' = pc
    /\ UNCHANGED <<treeVars, files, removed, calls, opened, tailVars>>

\* Thread t runs open(path, mode) and returns the stream.
Open(t) ==
    /\ pc[t] = "open"
    /\ LET path == filename(Prefix, ti[t], Suffix)
       IN /\ files' = files \cup {path}
          /\ calls' = Append(calls, [path |-> path, before |-> files])
          /\ opened' = [opened EXCEPT ![t] = ti[t]]
    /\ pc' = [pc EXCEPT ![t] = "idle"]
    /\ UNCHANGED <<treeVars, removed, ti, tailVars>>

NextFile ==
    \/ \E path \in UserPaths : SaveToDirectory(1, path)
    \/ MakeLoggedFile
    \/ \E path \in files : RemoveFile(path)

\* Calls of make_logged_file made one after the other.
SpecFile == Init /\ [][NextFile]_vars

NextRace ==
    \/ \E path \in UserPaths : SaveToDirectory(1, path)
    \/ \E t \in Threads : Begin(t)
    \/ \E t \in Threads : Check(t)
    \/ \E t \in Threads : Open(t)

\* Calls of make_logged_file made by several threads at once.
SpecRace == Init /\ [][NextRace]_vars

\* ------------------------------------------------------------ StreamLogger
\* Bytes are numbers: 10 is "\n", 13 is "\r", 97 and 98 are "a" and "b", and
\* 255 is a byte that no UTF-8 text holds.
DefaultNewline == <<10>>
\* The newline_char arguments the model passes.
Delimiters == {DefaultNewline, <<13, 10>>}
\* What the owner of a stream writes to it.
TextContents == {<<>>, <<97, 10, 98, 10>>, <<98, 10>>, <<255, 10, 97, 10>>}
BinaryContents == TextContents \cup {<<97, 13, 10>>}
\* The streams of a tailer: stdout and stderr of a process, the one session
\* of a pseudo-terminal.
StreamsOf(kind) == IF kind = "pty" THEN 1..1 ELSE 1..2
TextMode(kind) == kind \in {"process", "pty"}

\* bytes.decode(): UTF-8 text of the bytes, or UnicodeDecodeError.
Decodable(b) == \A k \in 1..Len(b) : b[k] < 128
chr(c) ==
    CASE c = 10 -> "\n"
      [] c = 13 -> "\r"
      [] c = 97 -> "a"
      [] c = 98 -> "b"
      [] OTHER -> "?"
RECURSIVE decode(_)
decode(b) == IF b = <<>> THEN "" ELSE chr(Head(b)) \o decode(Tail(b))

\* is_done() of the three classes.
is_done ==
    CASE tkind = "process" -> ~alive
      [] tkind = "pty" -> ~alive
      [] OTHER -> _done

\* What stream.read(1) does on stream k: hands over one byte, returns None
\* or an empty result, raises, or waits.
ReadOutcome(k) ==
    IF k \in broken THEN "raise"
    ELSE IF pipe[k] # <<>>
         THEN IF TextMode(tkind) /\ Head(pipe[k]) >= 128 THEN "raise" ELSE "byte"
    ELSE IF alive THEN IF blocking THEN "wait" ELSE "none"
    ELSE IF tkind = "pty" THEN "raise" ELSE "empty"

\* byte == self._newline_char
IsNewline(byte, newline_char) == byte = newline_char

\* A tailer thread has been started on freshly opened streams.
TailInit ==
    \E kind \in {"stream", "process", "pty"}, blk \in BOOLEAN,
       nl \in Delimiters, c1 \in BinaryContents, c2 \in BinaryContents :
        /\ TextMode(kind) => blk /\ c1 \in TextContents /\ c2 \in TextContents
        /\ kind = "pty" => c2 = <<>>
        /\ tkind = kind
        /\ blocking = blk
        /\ _newline_char = nl
        /\ _buffers = [k \in StreamsOf(kind) |-> <<>>]
        /\ _done = FALSE
        /\ got_byte = FALSE
        /\ tpc = "test"
        /\ si = 0
        /\ pending = [k \in StreamsOf(kind) |-> IF k = 1 THEN c1 ELSE c2]
        /\ pipe = [k \in StreamsOf(kind) |-> <<>>]
        /\ alive = TRUE
        /\ broken = {}
        /\ records = <<>>
        /\ readBytes = [k \in StreamsOf(kind) |-> <<>>]
        /\ hist = [step |-> "none", raised |-> FALSE, sleeps |-> 0, unwritten |-> FALSE]

\* while not self.is_done(): enter a pass, or return from run().
Test ==
    /\ tpc = "test"
    /\ IF is_done
       THEN tpc' = "exit" /\ UNCHANGED <<got_byte, si>>
       ELSE tpc' = "read" /\ got_byte' = FALSE /\ si' = 1
    /\ hist' = [hist EXCEPT !.step = "test"]
    /\ UNCHANGED <<treeVars, fileVars, tkind, blocking, _newline_char, _buffers,
                   _done, pending, pipe, alive, broken, records, readBytes>>

\* The end of the for loop over the streams (line 284).
PassEnds(done, got) == IF ~got \/ done THEN "sleep" ELSE "read"

\* One stream.read(1) of the pass and what the loop body does with it.
Read ==
    /\ tpc = "read"
    /\ LET out == ReadOutcome(si)
           last_stream == si + 1 \notin DOMAIN pipe
       IN /\ out # "wait"
          /\ CASE out = "raise" ->
                    /\ _done' = TRUE
                    /\ tpc' = "sleep"
                    /\ hist' = [hist EXCEPT !.step = "raise", !.raised = TRUE]
                    /\ UNCHANGED <<_buffers, got_byte, si, pipe, records, readBytes>>
               [] out \in {"none", "empty"} ->
                    /\ IF last_stream
                       THEN /\ tpc' = PassEnds(_done, got_byte)
                            /\ si' = 1
                            /\ got_byte' = FALSE
                       ELSE /\ si' = si + 1
                            /\ UNCHANGED <<tpc, got_byte>>
                    /\ hist' = [hist EXCEPT !.step = out,
                                            !.raised = @ \/ out = "empty"]
                    /\ UNCHANGED <<_buffers, _done, pipe, records, readBytes>>
               [] OTHER ->
                    LET byte == <<Head(pipe[si])>>
                    IN /\ pipe' = [pipe EXCEPT ![si] = Tail(@)]
                       /\ readBytes' = [readBytes EXCEPT ![si] = @ \o byte]
                       /\ IF IsNewline(byte, _newline_char)
                          THEN IF Decodable(_buffers[si])
                               THEN /\ records' = Append(records,
                                           [stream |-> si, level |-> INFO,
                                            text |-> decode(_buffers[si])])
                                    /\ _buffers' = [_buffers EXCEPT ![si] = <<>>]
                                    /\ got_byte' = TRUE
                                    /\ hist' = [hist EXCEPT !.step = "record"]
                                    /\ UNCHANGED <<_done, tpc>>
                               ELSE /\ _done' = TRUE
                                    /\ tpc' = "sleep"
                                    /\ hist' = [hist EXCEPT !.step = "decode_error"]
                                    /\ UNCHANGED <<_buffers, got_byte, records>>
                          ELSE /\ _buffers' = [_buffers EXCEPT ![si] = @ \o byte]
                               /\ got_byte' = TRUE
                               /\ hist' = [hist EXCEPT !.step = "byte"]
                               /\ UNCHANGED <<_done, tpc, records>>
                       /\ UNCHANGED si
    /\ UNCHANGED <<treeVars, fileVars, tkind, blocking, _newline_char, pending,
                   alive, broken>>

\* time.sleep(0.5)
Sleep ==
    /\ tpc = "sleep"
    /\ tpc' = "test"
    /\ hist' = [hist EXCEPT !.step = "sleep",
                            !.sleeps = IF alive \/ @ = MaxSleeps THEN @ ELSE @ + 1]
    /\ UNCHANGED <<treeVars, fileVars, tkind, blocking, _newline_char, _buffers,
                   _done, got_byte, si, pending, pipe, alive, broken, records,
                   readBytes>>

\* The owner of stream k writes its next byte.
Write(k) ==
    /\ alive
    /\ k \in DOMAIN pending
    /\ pending[k] # <<>>
    /\ pending' = [pending EXCEPT ![k] = Tail(@)]
    /\ pipe' = [pipe EXCEPT ![k] = Append(@, Head(pending[k]))]
    /\ UNCHANGED <<treeVars, fileVars, tkind, blocking, _newline_char, _buffers,
                   _done, got_byte, tpc, si, alive, broken, records, readBytes,
                   hist>>

\* The process or session ends: its exit status is there, its ends of the
\* streams are closed.
Die ==
    /\ alive
    /\ alive' = FALSE
    /\ hist' = [hist EXCEPT !.unwritten = \E k \in DOMAIN pending : pending[k] # <<>>]
    /\ UNCHANGED <<treeVars, fileVars, tkind, blocking, _newline_char, _buffers,
                   _done, got_byte, tpc, si, pending, pipe, broken, records,
                   readBytes>>

\* Stream k is closed under the tailer: its read(1) raises from now on.
Break(k) ==
    /\ k \in DOMAIN pipe
    /\ k \notin broken
    /\ broken' = broken \cup {k}
    /\ UNCHANGED <<treeVars, fileVars, tkind, blocking, _newline_char, _buffers,
                   _done, got_byte, tpc, si, pending, pipe, alive, records,
                   readBytes, hist>>

InitTail ==
    /\ Starts(init(Blank, 1, RootName, IntV(DEBUG), 0, FALSE))
    /\ nodes = 1
    /\ last = Call("init", 1, "none")
    /\ inherited = [n \in Node |-> FALSE]
    /\ budget = 0
    /\ FileIdle
    /\ TailInit

Tailer == Test \/ Read \/ Sleep

NextTail ==
    \/ Test
    \/ Read
    \/ Sleep
    \/ \E k \in 1..2 : Write(k)
    \/ Die
    \/ \E k \in 1..2 : Break(k)

\* One tailer thread, the owner of its streams, and the process.
SpecTail == InitTail /\ [][NextTail]_vars

\* The same, with the tailer thread and the writers scheduled fairly.
SpecTailFair ==
    /\ InitTail
    /\ [][NextTail]_vars
    /\ WF_vars(Tailer)
    /\ \A k \in 1..2 : WF_vars(Write(k))

\* ----------------------------------------------------------------- claims
Live == 1..nodes
\* n is x or lies below x by parent links.
RECURSIVE InSubtree(_, _)
InSubtree(x, n) ==
    IF n = x THEN TRUE
    ELSE IF parent[n] = 0 THEN FALSE
    ELSE InSubtree(x, parent[n])
\* The step is a call the caller makes (not stuttering).
IsCall(op) == budget' # budget /\ last'.op = op

\* C1: a handler added at X with include_descendants=True (so recorded in
\* X's _descendant_handlers) is in the handler list of every node of X's
\* subtree, whatever was constructed, added or set afterwards.
C1_HandlerReachesSubtree ==
    \A x \in Live : \A h \in Range(_descendant_handlers[x]) :
        \A n \in Live : InSubtree(x, n) => h \in Range(_handlers[n])

\* C2: no handler occurs twice in a node's _handlers or in its
\* _descendant_handlers.
C2_NoDuplicateHandler ==
    \A n \in Live : \A h \in AllHandlers :
        /\ Count(_handlers[n], h) <= 1
        /\ Count(_descendant_handlers[n], h) <= 1

\* C3: a construction of a child with an accepted level returns normally and
\* leaves the child with a directory: <parent directory>/<name> when the
\* parent has one, otherwise a temporary directory.
C3_ChildGetsDirectory ==
    (last.op = "init" /\ last.node # 1 /\ last.exc # "ValueError")
        => /\ last.exc = "none"
           /\ last.node \in Live
           /\ _directory[last.node] # None
           /\ _directory[parent[last.node]] # None
                 => _directory[last.node]
                        = join(_directory[parent[last.node]], name[last.node])

\* C4: save_to_directory(p) on a node whose directory was assigned by an
\* earlier save_to_directory(p) returns normally and changes nothing.
C4_SamePathIsNoOp ==
    [][(IsCall("save_to_directory") /\ given[last'.node] = last'.path)
          => /\ last'.exc = "none"
             /\ _directory' = _directory
             /\ _handlers' = _handlers
             /\ fsFiles' = fsFiles]_vars

\* C5: a node's directory, once set, never changes; save_to_directory(q) on a
\* node whose directory is another path raises ValueError and leaves every
\* directory and every handler list as it was.
C5_DirectorySetOnce ==
    [][/\ \A n \in Node : _directory[n] # None => _directory'[n] = _directory[n]
       /\ (/\ IsCall("save_to_directory")
           /\ _directory[last'.node] # None
           /\ realpath(last'.path) # _directory[last'.node])
          => /\ last'.exc = "ValueError"
             /\ _directory' = _directory
             /\ _handlers' = _handlers]_vars
\* C5's case: a node with a directory and a child refused another path.
C5_Witness ==
    /\ last.op = "save_to_directory"
    /\ last.exc = "ValueError"
    /\ children[last.node] # <<>>
    /\ _directory[last.node] # None
    /\ realpath(last.path) # _directory[last.node]

\* C6: a node created with log_level=None, and not set since, reports its
\* parent's current threshold.
C6_InheritedLevelFollowsParent ==
    \A n \in Live :
        inherited[n] => log_level(State, n) = log_level(State, parent[n])

\* C7: setting log_level to a value outside {CRITICAL, ERROR, WARNING, INFO,
\* DEBUG} (by number or by name) raises ValueError and changes neither the
\* threshold nor any handler's level.
FiveNames == {"CRITICAL", "ERROR", "WARNING", "INFO", "DEBUG"}
Unrecognized(v) ==
    IF v.type = "int" THEN v.int \notin Recognized ELSE upper(v.str) \notin FiveNames
C7_UnrecognizedLevelRejected ==
    [][(IsCall("log_level") /\ Unrecognized(last'.value))
          => /\ last'.exc = "ValueError"
             /\ _log_level' = _log_level
             /\ hlevel' = hlevel]_vars

\* C8: each sequential call returns the first name of run.log, run2.log,
\* run3.log, ... that did not exist before the call; with no file removed the
\* n-th call returns the n-th name, so the calls return distinct paths.
ExpectedNames ==
    <<"run.log", "run2.log", "run3.log", "run4.log", "run5.log", "run6.log",
      "run7.log", "run8.log">>
C8_FirstFreeName ==
    /\ \A k \in 1..Len(calls) :
          /\ calls[k].path \notin calls[k].before
          /\ \E i \in 1..Len(ExpectedNames) :
                /\ calls[k].path = ExpectedNames[i]
                /\ \A j \in 1..(i - 1) : ExpectedNames[j] \in calls[k].before
    /\ ~removed =>
          \A k \in 1..Len(calls) : calls[k].path = ExpectedNames[k]
\* C8's case: three calls in a row, nothing removed.
C8_Witness ==
    /\ ~removed
    /\ Len(calls) = 3
    /\ calls[3].path = "run3.log"

\* C9: the calls of concurrent threads return pairwise distinct paths.
C9_ConcurrentPathsDistinct ==
    \A j \in 1..Len(calls) : \A k \in 1..Len(calls) :
        j # k => calls[j].path # calls[k].path

\* C10: close() on a node with cleanup_empty=True and a directory removes the
\* node's log file if it holds zero bytes, removes the node's directory if
\* that leaves it empty, and keeps a log file of non-zero size.
C10_CloseRemovesEmptyDirectory ==
    [][(/\ IsCall("close")
        /\ cleanup_empty[last'.node]
        /\ _directory[last'.node] # None)
          => LET f == OwnLog(State, last'.node)
                 d == _directory[last'.node].target
             IN /\ IsEmptyFile(State, f) =>
                      /\ f \notin fsFiles'
                      /\ (/\ {g \in fsFiles' : g.dir = d} = {}
                          /\ {x \in fsDirs' : Len(x) = Len(d) + 1 /\ IsPrefix(d, x)} = {})
                            => d \notin fsDirs'
                /\ f \in fsNonEmpty => f \in fsFiles' /\ f \in fsNonEmpty']_vars

\* No node below n has a directory that lies above n's directory.
NoDescendantAbove(n) ==
    \A m \in Live :
        (m # n /\ InSubtree(n, m) /\ _directory[m] # None)
            => ~(/\ IsPrefix(_directory[m].target, _directory[n].target)
                 /\ _directory[m].target # _directory[n].target)

\* C10, amended: the zero-byte log file is removed when the stream of the
\* node's FileHandler is open; the node's own directory is not removed, even
\* when that leaves it empty; log files of non-zero size are kept.
C10_CloseKeepsOwnDirectory ==
    [][(/\ IsCall("close")
        /\ cleanup_empty[last'.node]
        /\ _directory[last'.node] # None)
          => LET n == last'.node
                 f == OwnLog(State, n)
                 d == _directory[n].target
             IN /\ (IsEmptyFile(State, f) /\ stream[n] \in {"open", "stale"})
                      => f \notin fsFiles'
                /\ (d \in fsDirs /\ NoDescendantAbove(n)) => d \in fsDirs'
                /\ fsNonEmpty \subseteq fsNonEmpty'
                /\ fsNonEmpty \subseteq fsFiles']_vars
\* C10's case: close() removed the node's zero-byte log file, which left the
\* node's directory empty, and the directory is still there.
C10_Witness ==
    /\ last.op = "close"
    /\ cleanup_empty[last.node]
    /\ _directory[last.node] # None
    /\ stream[last.node] = "closed"
    /\ OwnLog(State, last.node) \notin fsFiles
    /\ _directory[last.node].target \in fsDirs
    /\ FilesIn(State, _directory[last.node].target) = {}
    /\ SubDirs(State, _directory[last.node].target) = {}

\* The delimiter-terminated segments of the bytes b, in order.
RECURSIVE Segments(_, _, _)
Segments(b, d, cur) ==
    IF b = <<>> THEN <<>>
    ELSE IF IsPrefix(d, b)
         THEN <<cur>> \o Segments(SubSeq(b, Len(d) + 1, Len(b)), d, <<>>)
         ELSE Segments(Tail(b), d, Append(cur, Head(b)))
\* The texts of the records emitted for stream k, in order.
RecordsOf(k) ==
    LET rs == SelectSeq(records, LAMBDA r : r.stream = k)
    IN [j \in 1..Len(rs) |-> rs[j].text]
\* Everything stream k holds, held or will hold.
Source(k) == readBytes[k] \o pipe[k] \o pending[k]

\* C11: the records emitted for a stream are the delimiter-terminated
\* segments of the bytes read from it (here: bytes that can be decoded), one
\* per occurrence of the delimiter, in order, without the delimiter.
C11_RecordsAreSegments ==
    \A k \in DOMAIN readBytes :
        Decodable(readBytes[k]) =>
            LET segs == Segments(readBytes[k], _newline_char, <<>>)
            IN RecordsOf(k) = [j \in 1..Len(segs) |-> decode(segs[j])]

\* C12: a process tailer whose one stream held "a\nb\n" and whose other
\* stream held nothing, all of it written before the process ended, has
\* emitted exactly "a" then "b" when run() returns, and has slept at most once
\* since the process ended.
C12_ProcessLinesThenExit ==
    (/\ tkind = "process"
     /\ _newline_char = DefaultNewline
     /\ broken = {}
     /\ ~hist.unwritten
     /\ \E k \in 1..2 : /\ Source(k) = <<97, 10, 98, 10>>
                        /\ Source(3 - k) = <<>>
     /\ tpc = "exit")
        => /\ [j \in 1..Len(records) |-> records[j].text] = <<"a", "b">>
           /\ hist.sleeps <= 1

\* C13: once a read has raised or signalled closure, run() returns.
C13_ReadFailureTerminates == hist.raised ~> (tpc = "exit")

\* A complete line of stream k is written and not yet read.
LineWaiting(k) ==
    /\ k \in DOMAIN pipe
    /\ \E j \in 1..Len(pipe[k]) : <<pipe[k][j]>> = _newline_char
\* C14: with the tailer scheduled fairly, a complete line waiting on a stream
\* is read (and so emitted) unless the tailer ends, a read fails or a stream
\* is closed first.
C14_NoStarvation ==
    \A k \in 1..2 :
        (LineWaiting(k) /\ tpc # "exit")
            ~> (~LineWaiting(k) \/ tpc = "exit" \/ _done \/ broken # {})

\* C15: when the buffer of a stream cannot be decoded at a delimiter, the
\* tailer emits a warning-level record, is not terminated, and has reset the
\* buffer of that stream.
C15_DecodeFailureIsWarning ==
    hist.step = "decode_error"
        => /\ ~_done
           /\ records # <<>>
           /\ records[Len(records)].level = WARNING
           /\ _buffers[si] = <<>>

\* The nodes strictly below x.
Below(x) == {m \in Live : m # x /\ InSubtree(x, m)}
\* Every construction so far returned normally.
NoFailedConstruction == \A m \in Live : ~_tmpdir[m]

\* C16: save_to_directory(path) on a node without a directory whose
\* descendants hold transient storage and no directory returns normally, and
\* afterwards every descendant's directory is <its parent's directory>/<its
\* own name>.
C16_SaveMirrorsTree ==
    [][(/\ IsCall("save_to_directory")
        /\ _directory[last'.node] = None
        /\ children[last'.node] # <<>>
        /\ \A m \in Below(last'.node) : _tmpdir[m] /\ _directory[m] = None)
          => /\ last'.exc = "none"
             /\ _directory'[last'.node] = realpath(last'.path)
             /\ \A m \in Below(last'.node) :
                   _directory'[m] = join(_directory'[parent[m]], name[m])]_vars
\* C16's case: the root got its directory after a child and a grandchild
\* were attached, and both directories follow the tree.
C16_Witness ==
    /\ last.op = "save_to_directory"
    /\ last.exc = "none"
    /\ last.node = 1
    /\ budget = MaxCalls - 3
    /\ nodes = 3
    /\ parent[2] = 1 /\ parent[3] = 2
    /\ _tmpdir[2] /\ _tmpdir[3]
    /\ _directory[2] = join(_directory[1], name[2])
    /\ _directory[3] = join(_directory[2], name[3])

\* C17: when addHandler(h, include_descendants=True, set_log_level=True)
\* returns on X, h's level is X's threshold.
C17_HandlerLevelIsOwnThreshold ==
    [][(/\ IsCall("addHandler")
        /\ NoFailedConstruction
        /\ last'.flag
        /\ last'.set_level)
          => hlevel'[last'.handler] = log_level(State, last'.node).int]_vars

\* C18: the children of a node have pairwise distinct names.
C18_SiblingNamesDistinct ==
    NoFailedConstruction =>
        \A n \in Live : \A j \in 1..Len(children[n]) : \A k \in 1..Len(children[n]) :
            j # k => name[children[n][j]] # name[children[n][k]]

\* C19: a node is given transient storage at its attachment exactly when its
\* parent has no directory; no call but close() changes which nodes hold
\* transient storage; after close() the nodes of the closed subtree hold none
\* and the nodes outside it hold what they held.
C19_TransientStorageUntilClose ==
    [][/\ IsCall("init") =>
            /\ \A m \in Live : _tmpdir'[m] = _tmpdir[m]
            /\ nodes' # nodes =>
                  /\ _tmpdir'[nodes'] = (_directory[parent'[nodes']] = None)
                  /\ tmpDirs' = IF _tmpdir'[nodes'] THEN tmpDirs \cup {nodes'} ELSE tmpDirs
       /\ (\E op \in {"save_to_directory", "log_level", "emit", "addHandler"} : IsCall(op))
            => _tmpdir' = _tmpdir /\ tmpDirs' = tmpDirs
       /\ IsCall("close") =>
            \A m \in Live :
                IF InSubtree(last'.node, m)
                THEN ~_tmpdir'[m] /\ m \notin tmpDirs'
                ELSE _tmpdir'[m] = _tmpdir[m] /\ (m \in tmpDirs' <=> m \in tmpDirs)]_vars
\* C19's case: under a root without a directory, close() on one child
\* released its transient storage, and its sibling still holds its own.
C19_Witness ==
    /\ last.op = "close"
    /\ last.node = 2
    /\ nodes = 3
    /\ parent[2] = 1 /\ parent[3] = 1
    /\ _directory[1] = None
    /\ ~_tmpdir[2] /\ 2 \notin tmpDirs
    /\ _tmpdir[3] /\ 3 \in tmpDirs

\* The handlers attached to a proper ancestor of x.
RECURSIVE AncestorHandlers(_)
AncestorHandlers(x) ==
    IF parent[x] = 0 THEN {}
    ELSE Range(_handlers[parent[x]]) \cup AncestorHandlers(parent[x])
\* C20: setting the log_level of X (to a recognized level), or constructing a
\* child under X, leaves the level of every handler attached to a proper
\* ancestor of X as it was.
C20_AncestorHandlerLevelsKept ==
    [][/\ (IsCall("log_level") /\ NoFailedConstruction /\ ~Unrecognized(last'.value))
            => \A h \in AncestorHandlers(last'.node) : hlevel'[h] = hlevel[h]
       /\ (IsCall("init") /\ NoFailedConstruction /\ nodes' # nodes)
            => \A h \in AncestorHandlers(parent'[nodes']) : hlevel'[h] = hlevel[h]]_vars

====
